---- MODULE Spec2Model ----
(***************************************************************************)
(* PDF2Key: the conversion pipeline of src/main.rs, src/keynote.rs and     *)
(* src/pdf_processor.rs.  The UI thread (Pdf2KeyApp::update and the        *)
(* handlers it calls) and the conversion workers spawned by                *)
(* start_conversion share `status` and `is_converting`; every critical     *)
(* section of either mutex is one step.                                    *)
(*                                                                         *)
(* A String or a path is a sequence of tokens.  A token is one of the      *)
(* characters that matter to the generated script (double quote,           *)
(* backslash, space, dot, slash) or a run of ordinary characters.          *)
(***************************************************************************)
EXTENDS Integers, Sequences, FiniteSets, TLC

\* Jobs that may be started in one run of the application.
MaxJobs == 2
\* Largest page count of a document.
MaxPages == 2

Jobs == 1..MaxJobs

QUOTE == "\""
BACKSLASH == "\\"

\* Option<T>: <<>> is None, <<x>> is Some(x).
None == <<>>
Some(x) == <<x>>
IsSome(o) == o # <<>>
Unwrap(o) == o[1]

RECURSIVE LastIndexOf(_, _, _)
\* Largest index k <= n with s[k] = t, or 0.
LastIndexOf(s, t, n) ==
    IF n = 0 THEN 0
    ELSE IF s[n] = t THEN n
    ELSE LastIndexOf(s, t, n - 1)

\* Path::set_extension: the part of the file name after its last dot (a dot
\* that starts the file name does not count) is replaced by ext.
set_extension(path, ext) ==
    LET slash == LastIndexOf(path, "/", Len(path))
        dot   == LastIndexOf(path, ".", Len(path))
        stem  == IF dot > slash + 1 THEN SubSeq(path, 1, dot - 1) ELSE path
    IN  stem \o <<".", ext>>

\* The files the user can pick in the file dialog.
PickablePaths ==
    { <<"/", "my", " ", "talk", ".", "pdf">>,
      <<"/", "a", QUOTE, "b", ".", "pdf">> }

----------------------------------------------------------------------------
\* AppStatus and its Default

AppStatus(message, progress, is_error, is_success) ==
    [message |-> message, progress |-> progress,
     is_error |-> is_error, is_success |-> is_success]

AppStatusDefault == AppStatus(<<>>, 0, FALSE, FALSE)

\* Progress fractions, in thousandths.
ProgressRendering == 100
ProgressSpoolBase == 200
ProgressSpoolBand == 500
ProgressAssembling == 800
ProgressDone == 1000

\* main.rs:407: 0.2 + 0.5 * (i / total_pages)
SpoolProgress(i, total_pages) ==
    ProgressSpoolBase + (ProgressSpoolBand * i) \div total_pages

----------------------------------------------------------------------------
\* Result<T> and anyhow::Error

\* An anyhow::Error is its chain of messages, outermost context first.
Ok(v) == [ok |-> TRUE, value |-> v, error |-> <<>>]
Err(chain) == [ok |-> FALSE, value |-> <<>>, error |-> chain]

\* anyhow's Context::context: a new outermost message.
context(result, message) ==
    IF result.ok THEN result ELSE Err(<<message>> \o result.error)

\* `{}` of an anyhow::Error prints the outermost message only.
Display(chain) == chain[1]

\* String::from_utf8_lossy and Path::to_string_lossy: a byte that is not
\* valid UTF-8 becomes U+FFFD, everything else is kept.
LossyToken(t) == IF t = "<FF>" THEN "<U+FFFD>" ELSE t
to_string_lossy(bytes) == [k \in 1..Len(bytes) |-> LossyToken(bytes[k])]

\* What the operating system and the libraries report.
SystemTimeError == <<"second time provided was later than self">>
IoError == <<"Permission denied (os error 13)">>
PdfiumError == <<"PdfiumLibraryInternalError">>
SpawnError == <<"No such file or directory (os error 2)">>

\* What osascript can print to standard error when a script step fails.
StderrOutputs == { <<"not authorized">>, <<"execution error", "<FF>">> }

----------------------------------------------------------------------------
\* pdf_processor.rs

DPI == 200

\* The PDF file as it is when the worker opens it.
Documents ==
    { [opens |-> o, page_count |-> n, fail_page |-> f] :
        o \in BOOLEAN, n \in 0..MaxPages, f \in 0..MaxPages } 

RECURSIVE RenderLoop(_, _, _)
\* pdf_processor.rs:45-64: page `index` is rendered and pushed, or the call
\* returns the error of the first page that fails.
RenderLoop(doc, index, images) ==
    IF index = doc.page_count THEN Ok(images)
    ELSE IF doc.fail_page = index + 1
         THEN context(Err(<<PdfiumError>>),
                      <<"Falha ao renderizar página ", ToString(index + 1)>>)
         ELSE RenderLoop(doc, index + 1, Append(images, [page |-> index]))

\* PdfProcessor::render_pages
render_pages(doc, dpi) ==
    IF ~doc.opens
    THEN context(Err(<<PdfiumError>>), <<"Falha ao abrir o arquivo PDF">>)
    ELSE RenderLoop(doc, 0, <<>>)

\* PdfProcessor::new
PdfProcessorNew(bound) ==
    IF bound THEN Ok(<<>>)
    ELSE context(Err(<<PdfiumError>>),
                 <<"Não foi possível encontrar a biblioteca PDFium. Verifique se lib/libpdfium.dylib existe.">>)

----------------------------------------------------------------------------
\* The spool files, main.rs:385 and main.rs:415

RECURSIVE Digits(_)
Digits(n) == IF n < 10 THEN <<ToString(n)>>
             ELSE Append(Digits(n \div 10), ToString(n % 10))

RECURSIVE ZeroPad(_, _)
\* `{:04}`: at least `width` digits, zeros in front.
ZeroPad(digits, width) ==
    IF Len(digits) >= width THEN digits ELSE ZeroPad(<<"0">> \o digits, width)

SlideFileName(i) == <<"slide_">> \o ZeroPad(Digits(i), 4) \o <<".", "png">>

\* Path::join
join(dir, name) == dir \o <<"/">> \o name

\* main.rs:385: /tmp/pdf2key_<nanoseconds since the epoch>
TempDirPath(temp_ts) == <<"/", "tmp", "/", "pdf2key_", ToString(temp_ts)>>

----------------------------------------------------------------------------
\* keynote.rs: the generated script

RECURSIVE JoinStrings(_, _)
\* Vec<String>::join
JoinStrings(strings, sep) ==
    IF strings = <<>> THEN <<>>
    ELSE IF Len(strings) = 1 THEN strings[1]
    ELSE strings[1] \o sep \o JoinStrings(Tail(strings), sep)

\* keynote.rs:39: format!("\"{}\"", p)
QuotePath(p) == <<QUOTE>> \o p \o <<QUOTE>>

\* Mutant of AppleScriptBody: the document is saved before the slides are made.
AppleScriptBodySaveFirst ==
    << "tell application Keynote",
       "-- activate -- Removido para não trazer para frente",
       "set theDoc to make new document",
       "set slideWidth to width of theDoc",
       "set slideHeight to height of theDoc",
       "save theDoc in POSIX file outputPath",
       "repeat with i from 1 to count of imageList",
       "set imagePath to item i of imageList",
       "-- Converte para alias para garantir acesso",
       "set imageFile to (POSIX file imagePath) as alias",
       "if i is 1 then",
       "set currentSlide to slide 1 of theDoc",
       "else",
       "set currentSlide to make new slide at end of slides of theDoc",
       "end if",
       "tell currentSlide",
       "set theImage to make new image with properties {file:imageFile}",
       "set width of theImage to slideWidth",
       "set height of theImage to slideHeight",
       "set position of theImage to {0, 0}",
       "end tell",
       "end repeat",
       "-- close theDoc",
       "end tell" >>

\* keynote.rs:49-78, one token per line.
AppleScriptBody ==
    << "tell application Keynote",
       "-- activate -- Removido para não trazer para frente",
       "set theDoc to make new document",
       "set slideWidth to width of theDoc",
       "set slideHeight to height of theDoc",
       "repeat with i from 1 to count of imageList",
       "set imagePath to item i of imageList",
       "-- Converte para alias para garantir acesso",
       "set imageFile to (POSIX file imagePath) as alias",
       "if i is 1 then",
       "set currentSlide to slide 1 of theDoc",
       "else",
       "set currentSlide to make new slide at end of slides of theDoc",
       "end if",
       "tell currentSlide",
       "set theImage to make new image with properties {file:imageFile}",
       "set width of theImage to slideWidth",
       "set height of theImage to slideHeight",
       "set position of theImage to {0, 0}",
       "end tell",
       "end repeat",
       "save theDoc in POSIX file outputPath",
       "-- close theDoc",
       "end tell" >>

\* keynote.rs:37-82
AppleScript(slide_images, output_path_str) ==
    LET image_list == [k \in 1..Len(slide_images) |-> QuotePath(slide_images[k])]
        image_list_str == JoinStrings(image_list, <<", ">>)
    IN  <<"set imageList to {">> \o image_list_str \o <<"}", "\n">>
        \o <<"set outputPath to ">> \o QuotePath(output_path_str) \o <<"\n">>
        \o AppleScriptBody

\* Mutant of add_slide: the new path goes to the front of the list.
add_slide_front(slide_images, image_path) ==
    <<to_string_lossy(image_path)>> \o slide_images

\* KeynoteBuilder::add_slide
add_slide(slide_images, image_path) ==
    Append(slide_images, to_string_lossy(image_path))

RECURSIVE AddSlides(_, _)
\* main.rs:428-431
AddSlides(slide_images, image_paths) ==
    IF image_paths = <<>> THEN slide_images
    ELSE AddSlides(add_slide(slide_images, Head(image_paths)), Tail(image_paths))

----------------------------------------------------------------------------
\* osascript, as called at keynote.rs:86-90

RECURSIVE ReadLiteralFrom(_, _, _)
\* The characters of a string literal from position pos on, the opening quote
\* already read: a quote ends the literal, a backslash takes the quote or
\* backslash after it literally.
ReadLiteralFrom(text, pos, value) ==
    IF pos > Len(text) THEN [ok |-> FALSE, value |-> <<>>, next |-> pos]
    ELSE IF text[pos] = QUOTE THEN [ok |-> TRUE, value |-> value, next |-> pos + 1]
    ELSE IF text[pos] = BACKSLASH
         THEN IF pos + 1 <= Len(text) /\ text[pos + 1] \in {QUOTE, BACKSLASH}
              THEN ReadLiteralFrom(text, pos + 2, Append(value, text[pos + 1]))
              ELSE [ok |-> FALSE, value |-> <<>>, next |-> pos]
    ELSE IF text[pos] = "\n" THEN [ok |-> FALSE, value |-> <<>>, next |-> pos]
    ELSE ReadLiteralFrom(text, pos + 1, Append(value, text[pos]))

\* A string literal starting at position pos.
ReadLiteral(text, pos) ==
    IF pos <= Len(text) /\ text[pos] = QUOTE
    THEN ReadLiteralFrom(text, pos + 1, <<>>)
    ELSE [ok |-> FALSE, value |-> <<>>, next |-> pos]

\* The value of an expression that was computed once: With({F(v) : v \in {e}})
\* is F(e), with e evaluated a single time.
With(singleton) == CHOOSE r \in singleton : TRUE

RECURSIVE ReadList(_, _, _)
\* The items of a list of string literals, up to and including its brace.
ReadList(text, pos, items) ==
    LET AfterItem(lit) ==
            IF ~lit.ok \/ lit.next > Len(text)
            THEN [ok |-> FALSE, value |-> <<>>, next |-> pos]
            ELSE IF text[lit.next] = "}"
                 THEN [ok |-> TRUE, value |-> Append(items, lit.value),
                       next |-> lit.next + 1]
            ELSE IF text[lit.next] = ", "
                 THEN ReadList(text, lit.next + 1, Append(items, lit.value))
            ELSE [ok |-> FALSE, value |-> <<>>, next |-> pos]
    IN  With({AfterItem(lit) : lit \in {ReadLiteral(text, pos)}})

SyntaxError == [ok |-> FALSE, imageList |-> <<>>, outputPath |-> <<>>, body |-> <<>>]

\* The script as the interpreter reads it.
ParseScript(text) ==
    LET AfterOutputPath(list, out) ==
            IF ~out.ok \/ out.next > Len(text) THEN SyntaxError
            ELSE IF text[out.next] # "\n" THEN SyntaxError
            ELSE [ok |-> TRUE, imageList |-> list.value, outputPath |-> out.value,
                  body |-> SubSeq(text, out.next + 1, Len(text))]
        AfterImageList(list) ==
            IF ~list.ok \/ list.next + 1 > Len(text) THEN SyntaxError
            ELSE IF text[list.next] # "\n" \/ text[list.next + 1] # "set outputPath to "
                 THEN SyntaxError
            ELSE With({AfterOutputPath(list, out) :
                         out \in {ReadLiteral(text, list.next + 2)}})
    IN  IF Len(text) < 2 \/ text[1] # "set imageList to {" THEN SyntaxError
        ELSE With({AfterImageList(list) :
                     list \in {IF text[2] = "}"
                               THEN [ok |-> TRUE, value |-> <<>>, next |-> 3]
                               ELSE ReadList(text, 2, <<>>)}})

\* Keynote before the script runs: no document of the script, no variable set.
KeynoteStart ==
    [doc |-> <<>>, i |-> 0, imagePath |-> <<>>, imageFile |-> <<>>,
     slideWidth |-> "", slideHeight |-> "", currentSlide |-> 0, theImage |-> 0,
     activated |-> FALSE, steps |-> <<>>]

\* An image as Keynote makes it, before the script sets its properties.
NewImage(file) ==
    [file |-> file, width |-> "natural width", height |-> "natural height",
     position |-> "centre"]

\* The first line after line pc of body that is tok, or the line after the
\* last one.
NextLine(body, pc, tok) ==
    LET found == {k \in (pc + 1)..Len(body) : body[k] = tok}
    IN  IF found = {} THEN Len(body) + 1
        ELSE CHOOSE k \in found : \A m \in found : k <= m

\* The last line before line pc of body that is tok, or 0.
PreviousLine(body, pc, tok) ==
    LET found == {k \in 1..(pc - 1) : body[k] = tok}
    IN  IF found = {} THEN 0
        ELSE CHOOSE k \in found : \A m \in found : m <= k

RECURSIVE KeynoteRun(_, _, _, _)
\* Keynote runs the lines of body from line pc on, in the state k.  A new
\* document has one blank slide; doc is the sequence of its slides, a slide
\* the sequence of its images; steps are the commands Keynote carried out.
KeynoteRun(body, pc, imageList, k) ==
    IF pc > Len(body) THEN k
    ELSE LET line == body[pc]
             Go(to, state) == KeynoteRun(body, to, imageList, state)
         IN  CASE line = "activate" ->
                    Go(pc + 1, [k EXCEPT !.activated = TRUE])
               [] line = "set theDoc to make new document" ->
                    Go(pc + 1, [k EXCEPT !.doc = << <<>> >>,
                                         !.steps = Append(@, "make")])
               [] line = "set slideWidth to width of theDoc" ->
                    Go(pc + 1, [k EXCEPT !.slideWidth = "width of theDoc"])
               [] line = "set slideHeight to height of theDoc" ->
                    Go(pc + 1, [k EXCEPT !.slideHeight = "height of theDoc"])
               [] line = "repeat with i from 1 to count of imageList" ->
                    IF Len(imageList) >= 1
                    THEN Go(pc + 1, [k EXCEPT !.i = 1])
                    ELSE Go(NextLine(body, pc, "end repeat") + 1, k)
               [] line = "end repeat" ->
                    IF k.i < Len(imageList)
                    THEN Go(PreviousLine(body, pc,
                                "repeat with i from 1 to count of imageList") + 1,
                            [k EXCEPT !.i = @ + 1])
                    ELSE Go(pc + 1, k)
               [] line = "set imagePath to item i of imageList" ->
                    Go(pc + 1, [k EXCEPT !.imagePath = imageList[k.i]])
               [] line = "set imageFile to (POSIX file imagePath) as alias" ->
                    Go(pc + 1, [k EXCEPT !.imageFile = k.imagePath])
               [] line = "if i is 1 then" ->
                    IF k.i = 1 THEN Go(pc + 1, k)
                    ELSE Go(NextLine(body, pc, "else") + 1, k)
               [] line = "else" ->
                    Go(NextLine(body, pc, "end if") + 1, k)
               [] line = "set currentSlide to slide 1 of theDoc" ->
                    Go(pc + 1, [k EXCEPT !.currentSlide = 1])
               [] line = "set currentSlide to make new slide at end of slides of theDoc" ->
                    Go(pc + 1, [k EXCEPT !.doc = Append(@, <<>>),
                                         !.currentSlide = Len(k.doc) + 1])
               [] line = "set theImage to make new image with properties {file:imageFile}" ->
                    Go(pc + 1, [k EXCEPT
                                  !.doc[k.currentSlide] = Append(@, NewImage(k.imageFile)),
                                  !.theImage = Len(k.doc[k.currentSlide]) + 1,
                                  !.steps = Append(@, "slide")])
               [] line = "set width of theImage to slideWidth" ->
                    Go(pc + 1, [k EXCEPT
                                  !.doc[k.currentSlide][k.theImage].width = k.slideWidth])
               [] line = "set height of theImage to slideHeight" ->
                    Go(pc + 1, [k EXCEPT
                                  !.doc[k.currentSlide][k.theImage].height = k.slideHeight])
               [] line = "set position of theImage to {0, 0}" ->
                    Go(pc + 1, [k EXCEPT
                                  !.doc[k.currentSlide][k.theImage].position = "0, 0"])
               [] line = "save theDoc in POSIX file outputPath" ->
                    Go(pc + 1, [k EXCEPT !.steps = Append(@, "save")])
               [] OTHER -> Go(pc + 1, k)

\* The steps the body performs for a list of n images, in order.
ScriptSteps(body, n) ==
    KeynoteRun(body, 1, [m \in 1..n |-> <<>>], KeynoteStart).steps

RECURSIVE RunSteps(_, _, _, _)
\* Steps k.. of the script; step fail_step fails and ends the run.
RunSteps(steps, k, fail_step, done) ==
    IF k > Len(steps) THEN [success |-> TRUE, done |-> done]
    ELSE IF k = fail_step THEN [success |-> FALSE, done |-> done]
    ELSE RunSteps(steps, k + 1, fail_step, Append(done, steps[k]))

\* Command::new("osascript").arg("-e").arg(script).output() when the process
\* could be started: exit status, standard error and the paths Keynote saved.
osascript(script, fail_step, stderr) ==
    LET Run(parsed, run) ==
            [success |-> run.success,
             stderr |-> IF run.success THEN <<>> ELSE stderr,
             saved |-> IF \E k \in 1..Len(run.done) : run.done[k] = "save"
                       THEN {parsed.outputPath} ELSE {},
             done |-> run.done]
        Interpret(parsed) ==
            IF ~parsed.ok
            THEN [success |-> FALSE, stderr |-> <<"syntax error">>,
                  saved |-> {}, done |-> <<>>]
            ELSE With({Run(parsed, run) :
                         run \in {RunSteps(ScriptSteps(parsed.body, Len(parsed.imageList)),
                                           1, fail_step, <<>>)}})
    IN  With({Interpret(parsed) : parsed \in {ParseScript(script)}})

\* What can happen to a call of osascript with a script for n images: the
\* process does not start, the script runs to its end, or step fail_step of
\* it fails and prints stderr.
Environments(n) ==
    { [spawn_ok |-> FALSE, fail_step |-> 0, stderr |-> <<>>],
      [spawn_ok |-> TRUE, fail_step |-> 0, stderr |-> <<>>] }
    \cup { [spawn_ok |-> TRUE, fail_step |-> k, stderr |-> e] :
             k \in 1..(n + 2), e \in StderrOutputs }

\* Mutant of build: the check for an empty list of slides is missing.
build_without_empty_check(slide_images, output_path, env) ==
    LET applescript == AppleScript(slide_images, to_string_lossy(output_path))
        Built(output) ==
            [result |-> IF output.success THEN Ok(<<>>)
                        ELSE Err(<< <<"Erro no Keynote (Verifique permissões de acesso): ">>
                                    \o to_string_lossy(output.stderr) >>),
             script |-> Some(applescript),
             output |-> Some([success |-> output.success, stderr |-> output.stderr]),
             saved |-> output.saved, done |-> output.done]
    IN  IF ~env.spawn_ok
        THEN [result |-> context(Err(<<SpawnError>>), <<"Falha ao executar osascript">>),
              script |-> Some(applescript), output |-> None,
              saved |-> {}, done |-> <<>>]
        ELSE With({Built(output) :
                     output \in {osascript(applescript, env.fail_step, env.stderr)}})

\* KeynoteBuilder::build.  env is what the environment does to the call of
\* osascript: whether the process starts, the step that fails (0: none) and
\* what it prints to standard error then.
build(slide_images, output_path, env) ==
    LET Built(applescript, output) ==
            IF ~output.success
            THEN [result |-> Err(<< <<"Erro no Keynote (Verifique permissões de acesso): ">>
                                    \o to_string_lossy(output.stderr) >>),
                  script |-> Some(applescript),
                  output |-> Some([success |-> FALSE, stderr |-> output.stderr]),
                  saved |-> output.saved, done |-> output.done]
            ELSE [result |-> Ok(<<>>),
                  script |-> Some(applescript),
                  output |-> Some([success |-> TRUE, stderr |-> output.stderr]),
                  saved |-> output.saved, done |-> output.done]
        Execute(applescript) ==
            IF ~env.spawn_ok
            THEN [result |-> context(Err(<<SpawnError>>), <<"Falha ao executar osascript">>),
                  script |-> Some(applescript), output |-> None,
                  saved |-> {}, done |-> <<>>]
            ELSE With({Built(applescript, output) :
                         output \in {osascript(applescript, env.fail_step, env.stderr)}})
    IN  IF slide_images = <<>>
        THEN [result |-> Err(<<<<"Nenhum slide foi adicionado">>>>),
              script |-> None, output |-> None, saved |-> {}, done |-> <<>>]
        ELSE With({Execute(applescript) :
                     applescript \in {AppleScript(slide_images,
                                                  to_string_lossy(output_path))}})

----------------------------------------------------------------------------
VARIABLES
    pdf_path,       \* Pdf2KeyApp.pdf_path: Option<PathBuf>
    output_path,    \* Pdf2KeyApp.output_path: Option<PathBuf>
    status,         \* the AppStatus behind Pdf2KeyApp.status
    is_converting,  \* the bool behind Pdf2KeyApp.is_converting
    ui,             \* the UI thread: position in update() and the frame's
                    \* copies of is_converting and status.is_success
    spawned,        \* number of worker threads spawned so far
    worker,         \* worker[j]: position and locals of the j-th worker thread
    fs,             \* file system: which workspaces exist, the files Keynote saved
    mutex,          \* mutex[m]: the threads that hold a guard of the Mutex of
                    \* Pdf2KeyApp.status or of Pdf2KeyApp.is_converting
    render_config,  \* a page given to render_pages and the PdfRenderConfig
                    \* made for it (RenderSpec)
    log             \* log[j]: what the j-th worker has done in the function it
                    \* is in, in order; a call that has returned is one entry
                    \* (worker[j].script and .output: what build passed to
                    \* osascript and got back)

vars == <<pdf_path, output_path, status, is_converting, ui, spawned, worker, fs,
          mutex, render_config, log>>

\* The UI thread; worker thread j is j.
UiThread == 0

\* Mutant of lock: one lock stands for both values.
lock_all(m, name, t) == [n \in DOMAIN m |-> m[n] \cup {t}]

\* Mutex::lock by thread t: the guard exists from here on.
lock(m, name, t) == [m EXCEPT ![name] = @ \cup {t}]

\* Mutant of drop: a guard is never dropped.
drop_never(m, name, t) == m

\* The guard of thread t goes out of scope.
drop(m, name, t) == [m EXCEPT ![name] = @ \ {t}]

\* Thread t locks a mutex that is free, and its guard is dropped before the
\* thread does anything but read or write the guarded value: the guard is a
\* temporary of one statement (main.rs:146, 147, 339, 352), or a local of a
\* block that holds only the assignments (main.rs:280-283, 325-330,
\* 341-347, 389-393, 408-412, 420-424), or a local of the worker's closure
\* from the terminal write to the closure's end (main.rs:354-370).
CriticalSection(name, t) ==
    /\ mutex[name] = {}
    /\ mutex' = drop(lock(mutex, name, t), name, t)

\* Two critical sections of thread t, one after the other, in one step.
InTurn(names, t) ==
    /\ \A k \in 1..Len(names) : mutex[names[k]] = {}
    /\ mutex' = drop(lock(drop(lock(mutex, names[1], t), names[1], t),
                           names[2], t), names[2], t)

UiIdle == [pc |-> "idle", is_converting |-> FALSE, is_success |-> FALSE]

WorkerInit ==
    [pc |-> "unborn", pdf_path |-> <<>>, output_path |-> <<>>,
     temp_dir_path |-> <<>>, images |-> <<>>, total_pages |-> 0, i |-> 0,
     image_paths |-> <<>>, script |-> None, output |-> None, result |-> None]

Init ==
    /\ pdf_path = None
    /\ output_path = None
    /\ status = AppStatusDefault
    /\ is_converting = FALSE
    /\ ui = UiIdle
    /\ spawned = 0
    /\ worker = [j \in Jobs |-> WorkerInit]
    /\ fs = [workspace |-> [j \in Jobs |-> FALSE], saved |-> {}]
    /\ mutex = [status |-> {}, is_converting |-> {}]
    /\ render_config = None
    /\ log = [j \in Jobs |-> <<>>]

----------------------------------------------------------------------------
\* The UI thread: one frame of Pdf2KeyApp::update

\* main.rs:146-148: the frame copies is_converting and then status.  Only
\* the UI thread sets is_converting, so a flag read FALSE is still FALSE
\* when status is read: the two reads are one step.  A frame that reads the
\* flag TRUE reaches no handler (main.rs:226, 249) and changes nothing.  Of
\* the copy of status the handlers read is_success.
UiBeginFrame ==
    /\ ui.pc = "idle"
    /\ ~is_converting
    /\ ui' = [pc |-> "widgets", is_converting |-> is_converting,
              is_success |-> status.is_success]
    /\ InTurn(<<"is_converting", "status">>, UiThread)
    /\ UNCHANGED <<pdf_path, output_path, status, is_converting, spawned, worker, fs, log, render_config>>

\* A frame in which nothing is clicked.
UiNoClick ==
    /\ ui.pc = "widgets"
    /\ ui' = UiIdle
    /\ UNCHANGED <<pdf_path, output_path, status, is_converting, spawned, worker, fs, log, mutex, render_config>>

\* main.rs:226-233: the card is clicked; select_pdf opens the file dialog.
UiClickCard ==
    /\ ui.pc = "widgets"
    /\ ~ui.is_converting /\ ~ui.is_success
    /\ ui' = [ui EXCEPT !.pc = "dialog"]
    /\ UNCHANGED <<pdf_path, output_path, status, is_converting, spawned, worker, fs, log, mutex, render_config>>

\* select_pdf, main.rs:323-329: a file was picked.
select_pdf(path) ==
    /\ ui.pc = "dialog"
    /\ pdf_path' = Some(path)
    /\ status' = AppStatus(<<>>, 0, FALSE, FALSE)
    /\ ui' = UiIdle
    /\ CriticalSection("status", UiThread)
    /\ UNCHANGED <<output_path, is_converting, spawned, worker, fs, log, render_config>>

UiPickFile == \E path \in PickablePaths : select_pdf(path)

\* select_pdf, main.rs:319-322: the dialog was cancelled.
UiCancelDialog ==
    /\ ui.pc = "dialog"
    /\ ui' = UiIdle
    /\ UNCHANGED <<pdf_path, output_path, status, is_converting, spawned, worker, fs, log, mutex, render_config>>

\* main.rs:277-283: "Novo"
UiClickNovo ==
    /\ ui.pc = "widgets"
    /\ ~ui.is_converting /\ ui.is_success
    /\ pdf_path' = None
    /\ output_path' = None
    /\ status' = [status EXCEPT !.is_success = FALSE, !.message = <<>>]
    /\ ui' = UiIdle
    /\ CriticalSection("status", UiThread)
    /\ UNCHANGED <<is_converting, spawned, worker, fs, log, render_config>>

\* main.rs:299-307 and start_conversion up to main.rs:339: "Converter agora"
UiClickConvert ==
    /\ ui.pc = "widgets"
    /\ ~ui.is_converting /\ ~ui.is_success
    /\ IsSome(pdf_path)
    /\ spawned < MaxJobs
    /\ output_path' = IF IsSome(output_path) THEN output_path
                      ELSE Some(set_extension(Unwrap(pdf_path), "key"))
    /\ is_converting' = TRUE
    /\ ui' = [ui EXCEPT !.pc = "start_conversion"]
    /\ CriticalSection("is_converting", UiThread)
    /\ UNCHANGED <<pdf_path, status, spawned, worker, fs, log, render_config>>

\* start_conversion, main.rs:341-349: reset the status, spawn the worker.
start_conversion ==
    /\ ui.pc = "start_conversion"
    /\ status' = AppStatus(<<"Inicializando...">>, 0, FALSE, FALSE)
    /\ spawned' = spawned + 1
    /\ worker' = [worker EXCEPT ![spawned + 1] =
                    [WorkerInit EXCEPT !.pc = "start",
                                       !.pdf_path = Unwrap(pdf_path),
                                       !.output_path = Unwrap(output_path)]]
    /\ ui' = UiIdle
    /\ CriticalSection("status", UiThread)
    /\ UNCHANGED <<pdf_path, output_path, is_converting, fs, log, render_config>>

UiNext ==
    \/ UiBeginFrame
    \/ UiNoClick
    \/ UiClickCard
    \/ UiPickFile
    \/ UiCancelDialog
    \/ UiClickNovo
    \/ UiClickConvert
    \/ start_conversion

----------------------------------------------------------------------------
\* A worker thread: the closure of main.rs:349-370 round convert_pdf_to_keynote

Logged(j, kind, arg) == [log EXCEPT ![j] = Append(@, <<kind, arg>>)]

\* Mutant of Return: the closure writes the terminal status without clearing
\* is_converting first.
ReturnSkippingClear(w, result) ==
    [w EXCEPT !.result = Some(result), !.pc = "terminal_status"]

\* `?` and the final Ok(()): convert_pdf_to_keynote returns; the closure
\* goes on at main.rs:352.
Return(w, result) == [w EXCEPT !.result = Some(result), !.pc = "clear_converting"]

\* The head of the loop of main.rs:406: the next page, or the end of the loop.
SpoolLoop(i, total_pages) ==
    IF i < total_pages THEN "spool_status" ELSE "status_assembling"

\* main.rs:384-387: the workspace is named after the clock and created.
CreateWorkspace(j) ==
    /\ worker[j].pc = "start"
    /\ \E outcome \in {"clock_error", "io_error", "created"} :
        CASE outcome = "clock_error" ->
                /\ worker' = [worker EXCEPT ![j] = Return(@, Err(<<SystemTimeError>>))]
                /\ log' = Logged(j, "clock_failed", 0)
                /\ UNCHANGED fs
          [] outcome = "io_error" ->
                /\ worker' = [worker EXCEPT ![j] = Return(@, Err(<<IoError>>))]
                /\ log' = Logged(j, "create_dir_failed", 0)
                /\ UNCHANGED fs
          [] outcome = "created" ->
                /\ worker' = [worker EXCEPT ![j].temp_dir_path = TempDirPath(j),
                                            ![j].pc = "status_rendering"]
                /\ fs' = [fs EXCEPT !.workspace[j] = TRUE]
                /\ log' = Logged(j, "create_dir", 0)
    /\ UNCHANGED <<pdf_path, output_path, status, is_converting, ui, spawned, mutex, render_config>>

\* main.rs:389-393
StatusRendering(j) ==
    /\ worker[j].pc = "status_rendering"
    /\ status' = [status EXCEPT !.message = <<"Renderizando páginas...">>,
                                !.progress = ProgressRendering]
    /\ worker' = [worker EXCEPT ![j].pc = "load_pdfium"]
    /\ log' = Logged(j, "status", ProgressRendering)
    /\ CriticalSection("status", j)
    /\ UNCHANGED <<pdf_path, output_path, is_converting, ui, spawned, fs, render_config>>

\* main.rs:397
LoadPdfium(j) ==
    /\ worker[j].pc = "load_pdfium"
    /\ \E bound \in BOOLEAN :
        LET processor == PdfProcessorNew(bound)
        IN  /\ worker' = [worker EXCEPT ![j] =
                            IF processor.ok THEN [@ EXCEPT !.pc = "render_pages"]
                            ELSE Return(@, processor)]
            /\ log' = Logged(j, IF processor.ok THEN "load" ELSE "load_failed", 0)
    /\ UNCHANGED <<pdf_path, output_path, status, is_converting, ui, spawned, fs, mutex, render_config>>

\* main.rs:400-403
RenderPages(j) ==
    /\ worker[j].pc = "render_pages"
    /\ \E doc \in Documents :
        LET images == render_pages(doc, DPI)
        IN  /\ worker' = [worker EXCEPT ![j] =
                            IF images.ok
                            THEN [@ EXCEPT !.images = images.value,
                                           !.total_pages = Len(images.value),
                                           !.i = 0,
                                           !.pc = SpoolLoop(0, Len(images.value))]
                            ELSE Return(@, images)]
            /\ log' = Logged(j, IF images.ok THEN "render" ELSE "render_failed",
                             IF doc.opens THEN doc.page_count ELSE 0)
    /\ UNCHANGED <<pdf_path, output_path, status, is_converting, ui, spawned, fs, mutex, render_config>>

\* main.rs:407-412
SpoolStatus(j) ==
    LET w == worker[j]
        progress == SpoolProgress(w.i, w.total_pages)
    IN  /\ w.pc = "spool_status"
        /\ status' = [status EXCEPT
                        !.message = <<"Processando página ", ToString(w.i + 1),
                                      " de ", ToString(w.total_pages), "...">>,
                        !.progress = progress]
        /\ worker' = [worker EXCEPT ![j].pc = "spool_save"]
        /\ log' = Logged(j, "status", progress)
        /\ CriticalSection("status", j)
        /\ UNCHANGED <<pdf_path, output_path, is_converting, ui, spawned, fs, render_config>>

\* Mutant of AfterSave: a page whose write fails is skipped.
AfterSaveSkippingFailure(w, saved, img_path) ==
    IF saved.ok
    THEN [w EXCEPT !.image_paths = Append(@, img_path),
                   !.i = @ + 1,
                   !.pc = SpoolLoop(w.i + 1, w.total_pages)]
    ELSE [w EXCEPT !.i = @ + 1, !.pc = SpoolLoop(w.i + 1, w.total_pages)]

\* main.rs:416-417: `?` on the result of the write, then the push.
AfterSave(w, saved, img_path) ==
    IF saved.ok
    THEN [w EXCEPT !.image_paths = Append(@, img_path),
                   !.i = @ + 1,
                   !.pc = SpoolLoop(w.i + 1, w.total_pages)]
    ELSE Return(w, saved)

\* main.rs:415-417: the image of page i is written into the workspace.
SpoolSave(j) ==
    LET w == worker[j]
        img_path == join(w.temp_dir_path, SlideFileName(w.i))
    IN  /\ w.pc = "spool_save"
        /\ \E saved \in {Ok(<<>>), Err(<<IoError>>)} :
            /\ worker' = [worker EXCEPT ![j] = AfterSave(w, saved, img_path)]
            /\ log' = Logged(j, IF saved.ok THEN "save" ELSE "save_failed",
                             w.images[w.i + 1].page)
        /\ UNCHANGED <<pdf_path, output_path, status, is_converting, ui, spawned, fs, mutex, render_config>>

\* main.rs:420-424
StatusAssembling(j) ==
    /\ worker[j].pc = "status_assembling"
    /\ status' = [status EXCEPT
                    !.message = <<"Criando apresentação no Keynote...">>,
                    !.progress = ProgressAssembling]
    /\ worker' = [worker EXCEPT ![j].pc = "build"]
    /\ log' = Logged(j, "status", ProgressAssembling)
    /\ CriticalSection("status", j)
    /\ UNCHANGED <<pdf_path, output_path, is_converting, ui, spawned, fs, render_config>>

\* Mutant of AfterBuild: a failed build is tried again.
AfterBuildRetrying(w, built) ==
    IF built.result.ok
    THEN [w EXCEPT !.script = built.script, !.output = built.output,
                   !.pc = "remove_dir"]
    ELSE [w EXCEPT !.pc = "status_assembling"]

\* main.rs:433: `?` on the result of build.
AfterBuild(w, built) ==
    IF built.result.ok
    THEN [w EXCEPT !.script = built.script, !.output = built.output,
                   !.pc = "remove_dir"]
    ELSE Return([w EXCEPT !.script = built.script, !.output = built.output],
                built.result)

\* The steps of the script that Keynote performed, as log entries.
KeynoteLog(done) ==
    [k \in 1..Len(done) |->
        <<CASE done[k] = "make" -> "keynote_make"
            [] done[k] = "slide" -> "keynote_slide"
            [] done[k] = "save" -> "keynote_save", k>>]

\* main.rs:428-433
Build(j) ==
    LET w == worker[j]
        slide_images == AddSlides(<<>>, w.image_paths)
    IN  /\ w.pc = "build"
        /\ \E env \in Environments(Len(slide_images)) :
            \E built \in {build(slide_images, w.output_path, env)} :
                /\ worker' = [worker EXCEPT ![j] = AfterBuild(w, built)]
                /\ fs' = [fs EXCEPT !.saved =
                            @ \cup {[path |-> p, by |-> j] : p \in built.saved}]
                /\ log' = [log EXCEPT ![j] =
                            IF IsSome(built.script)
                            THEN Append(@, <<"osascript", Len(slide_images)>>)
                                 \o KeynoteLog(built.done)
                            ELSE Append(@, <<"build_failed", Len(slide_images)>>)]
        /\ UNCHANGED <<pdf_path, output_path, status, is_converting, ui, spawned, mutex, render_config>>

\* Mutant of RemoveDir: a removal that fails becomes the result of the job.
RemoveDirEscalating(j) ==
    /\ worker[j].pc = "remove_dir"
    /\ \E removed \in BOOLEAN :
        /\ fs' = IF removed THEN [fs EXCEPT !.workspace[j] = FALSE] ELSE fs
        /\ worker' = [worker EXCEPT ![j] =
                        Return(@, IF removed THEN Ok(<<>>) ELSE Err(<<IoError>>))]
    /\ log' = Logged(j, "remove_dir", 0)
    /\ UNCHANGED <<pdf_path, output_path, status, is_converting, ui, spawned, mutex, render_config>>

\* main.rs:436-439: the removal may fail; its result is dropped.
RemoveDir(j) ==
    /\ worker[j].pc = "remove_dir"
    /\ \E removed \in BOOLEAN :
        fs' = IF removed THEN [fs EXCEPT !.workspace[j] = FALSE] ELSE fs
    /\ worker' = [worker EXCEPT ![j] = Return(@, Ok(<<>>))]
    /\ log' = Logged(j, "remove_dir", 0)
    /\ UNCHANGED <<pdf_path, output_path, status, is_converting, ui, spawned, mutex, render_config>>

\* main.rs:352.  convert_pdf_to_keynote has returned: its locals are gone,
\* the closure holds the result.
ClearConverting(j) ==
    /\ worker[j].pc = "clear_converting"
    /\ is_converting' = FALSE
    /\ worker' = [worker EXCEPT ![j] =
                    [WorkerInit EXCEPT !.pc = "terminal_status",
                                       !.output = worker[j].output,
                                       !.result = worker[j].result]]
    /\ log' = [log EXCEPT ![j] = <<<<"convert_pdf_to_keynote", 0>>,
                                   <<"clear_converting", 0>>>>]
    /\ CriticalSection("is_converting", j)
    /\ UNCHANGED <<pdf_path, output_path, status, ui, spawned, fs, render_config>>

\* Mutant of TerminalStatus: the flags are left as they are.
TerminalStatusKeepingFlags(s, result) ==
    IF result.ok
    THEN [s EXCEPT !.message = <<"Concluído!">>, !.progress = ProgressDone]
    ELSE [s EXCEPT !.message = <<"Erro: ">> \o Display(result.error)]

\* Mutant of TerminalStatus: each branch sets its own flag and leaves the
\* other one as it is.
TerminalStatusSettingOneFlag(s, result) ==
    IF result.ok
    THEN [s EXCEPT !.message = <<"Concluído!">>, !.progress = ProgressDone,
                   !.is_success = TRUE]
    ELSE [s EXCEPT !.message = <<"Erro: ">> \o Display(result.error),
                   !.is_error = TRUE]

\* main.rs:355-368
TerminalStatus(s, result) ==
    IF result.ok
    THEN [s EXCEPT !.message = <<"Concluído!">>, !.progress = ProgressDone,
                   !.is_error = FALSE, !.is_success = TRUE]
    ELSE [s EXCEPT !.message = <<"Erro: ">> \o Display(result.error),
                   !.is_error = TRUE, !.is_success = FALSE]

\* main.rs:354-370: the terminal status is written and the thread ends.
WriteTerminalStatus(j) ==
    /\ worker[j].pc = "terminal_status"
    /\ status' = TerminalStatus(status, Unwrap(worker[j].result))
    /\ worker' = [worker EXCEPT ![j] = [WorkerInit EXCEPT !.pc = "done"]]
    /\ log' = Logged(j, "terminal", 0)
    /\ CriticalSection("status", j)
    /\ UNCHANGED <<pdf_path, output_path, is_converting, ui, spawned, fs, render_config>>

WorkerNext(j) ==
    \/ CreateWorkspace(j)
    \/ StatusRendering(j)
    \/ LoadPdfium(j)
    \/ RenderPages(j)
    \/ SpoolStatus(j)
    \/ SpoolSave(j)
    \/ StatusAssembling(j)
    \/ Build(j)
    \/ RemoveDir(j)
    \/ ClearConverting(j)
    \/ WriteTerminalStatus(j)

Next == UiNext \/ \E j \in Jobs : WorkerNext(j)

Spec == Init /\ [][Next]_vars

----------------------------------------------------------------------------
\* pdf_processor.rs:46-52: the PdfRenderConfig of one page

PointsPerInch == 72

\* Page widths and heights in points (A4 is 595 x 842, Letter 612 x 792)
\* and resolutions.  For these the f32 product is exact and the f32
\* quotient is off by far less than its distance to the next integer, so
\* the integer quotient below is what `as i32` yields.
PageWidths == {595, 612, 100, 1}
PageHeights == {842, 792, 144, 72}
Resolutions == {72, 150, 200, 300}

\* pdf_processor.rs:48, 51: (value * dpi as f32 / 72.0) as i32; `as i32`
\* drops the fraction.
TargetPixels(points, dpi) == (points * dpi) \div PointsPerInch

\* pdf_processor.rs:46-52
PdfRenderConfig(page, dpi) ==
    [target_width |-> TargetPixels(page.width, dpi),
     maximum_height |-> TargetPixels(page.height, dpi)]

\* A page of a document and the dpi that render_pages was called with.
RenderInit ==
    /\ render_config \in
          { [page |-> [width |-> w, height |-> h], dpi |-> d, config |-> None] :
              w \in PageWidths, h \in PageHeights, d \in Resolutions }
    /\ pdf_path = None
    /\ output_path = None
    /\ status = AppStatusDefault
    /\ is_converting = FALSE
    /\ ui = UiIdle
    /\ spawned = 0
    /\ worker = [j \in Jobs |-> WorkerInit]
    /\ fs = [workspace |-> [j \in Jobs |-> FALSE], saved |-> {}]
    /\ mutex = [status |-> {}, is_converting |-> {}]
    /\ log = [j \in Jobs |-> <<>>]

\* The body of the loop of render_pages up to the call of render_with_config.
MakeRenderConfig ==
    /\ render_config.config = None
    /\ render_config' =
          [render_config EXCEPT
              !.config = Some(PdfRenderConfig(render_config.page, render_config.dpi))]
    /\ UNCHANGED <<pdf_path, output_path, status, is_converting, ui, spawned,
                   worker, fs, mutex, log>>

RenderSpec == RenderInit /\ [][MakeRenderConfig]_vars

\* A worker is an operating-system thread: it is scheduled again and again,
\* and each of its steps ends once the external call in it returns
\* (main.rs:349 spawns it detached, nothing can cancel it).  The UI thread
\* acts only when the user does: no fairness for it.
FairSpec == Spec /\ \A j \in Jobs : WF_vars(WorkerNext(j))

----------------------------------------------------------------------------
\* The two mutexes, one step per lock() and one per drop of a guard.  The
\* position of a thread is named after the line of its next lock(): at
\* "lock_N" it has called lock() at main.rs:N and waits, at "read_N" or
\* "write_N" it holds the guard.  A frame is drawn whatever is_converting
\* is.  What the worker does between its locks is reduced to its outcome.

\* The thread at `at` is granted the mutex `name`.
Granted(t, name) ==
    /\ mutex[name] = {}
    /\ mutex' = lock(mutex, name, t)

UiLock(at, name, held) ==
    /\ ui.pc = at
    /\ Granted(UiThread, name)
    /\ ui' = [ui EXCEPT !.pc = held]
    /\ UNCHANGED <<pdf_path, output_path, status, is_converting, spawned,
                   worker, fs, render_config, log>>

\* main.rs:116, 146, 147, 280, 325, 339, 341: the lock() of the UI thread
\* returns.
UiLockReturns ==
    \/ UiLock("lock_116", "is_converting", "read_116")
    \/ UiLock("lock_146", "is_converting", "read_146")
    \/ UiLock("lock_147", "status", "read_147")
    \/ UiLock("lock_280", "status", "write_280")
    \/ UiLock("lock_325", "status", "write_325")
    \/ UiLock("lock_339", "is_converting", "write_339")
    \/ UiLock("lock_341", "status", "write_341")

\* update is called: main.rs:116 calls lock().
UpdateCalled ==
    /\ ui.pc = "idle"
    /\ ui' = [ui EXCEPT !.pc = "lock_116"]
    /\ UNCHANGED <<pdf_path, output_path, status, is_converting, spawned,
                   worker, fs, mutex, render_config, log>>

\* main.rs:116-118: the value is read, the temporary guard is dropped.
Read116 ==
    /\ ui.pc = "read_116"
    /\ mutex' = drop(mutex, "is_converting", UiThread)
    /\ ui' = [ui EXCEPT !.pc = "lock_146"]
    /\ UNCHANGED <<pdf_path, output_path, status, is_converting, spawned,
                   worker, fs, render_config, log>>

\* main.rs:146
Read146 ==
    /\ ui.pc = "read_146"
    /\ mutex' = drop(mutex, "is_converting", UiThread)
    /\ ui' = [ui EXCEPT !.pc = "lock_147", !.is_converting = is_converting]
    /\ UNCHANGED <<pdf_path, output_path, status, is_converting, spawned,
                   worker, fs, render_config, log>>

\* main.rs:147
Read147 ==
    /\ ui.pc = "read_147"
    /\ mutex' = drop(mutex, "status", UiThread)
    /\ ui' = [ui EXCEPT !.pc = "widgets", !.is_success = status.is_success]
    /\ UNCHANGED <<pdf_path, output_path, status, is_converting, spawned,
                   worker, fs, render_config, log>>

\* The frame ends with no click that locks anything.
FrameEnds ==
    /\ ui.pc = "widgets"
    /\ ui' = UiIdle
    /\ UNCHANGED <<pdf_path, output_path, status, is_converting, spawned,
                   worker, fs, mutex, render_config, log>>

\* main.rs:226-231 and 319-322: the card is clicked, the dialog opens.
CardClicked ==
    /\ ui.pc = "widgets"
    /\ ~ui.is_converting /\ ~ui.is_success
    /\ ui' = [ui EXCEPT !.pc = "dialog"]
    /\ UNCHANGED <<pdf_path, output_path, status, is_converting, spawned,
                   worker, fs, mutex, render_config, log>>

\* main.rs:319-325: a file is picked (lock() is called at 325) or the
\* dialog is cancelled.
DialogCloses ==
    /\ ui.pc = "dialog"
    /\ \/ \E path \in PickablePaths :
              /\ pdf_path' = Some(path)
              /\ ui' = [ui EXCEPT !.pc = "lock_325"]
       \/ /\ ui' = UiIdle
          /\ UNCHANGED pdf_path
    /\ UNCHANGED <<output_path, status, is_converting, spawned, worker, fs,
                   mutex, render_config, log>>

\* main.rs:325-330
Write325 ==
    /\ ui.pc = "write_325"
    /\ status' = AppStatus(<<>>, 0, FALSE, FALSE)
    /\ mutex' = drop(mutex, "status", UiThread)
    /\ ui' = UiIdle
    /\ UNCHANGED <<pdf_path, output_path, is_converting, spawned, worker, fs,
                   render_config, log>>

\* main.rs:277-280: "Novo" is clicked.
NovoClicked ==
    /\ ui.pc = "widgets"
    /\ ~ui.is_converting /\ ui.is_success
    /\ pdf_path' = None
    /\ output_path' = None
    /\ ui' = [ui EXCEPT !.pc = "lock_280"]
    /\ UNCHANGED <<status, is_converting, spawned, worker, fs, mutex,
                   render_config, log>>

\* main.rs:280-283
Write280 ==
    /\ ui.pc = "write_280"
    /\ status' = [status EXCEPT !.is_success = FALSE, !.message = <<>>]
    /\ mutex' = drop(mutex, "status", UiThread)
    /\ ui' = UiIdle
    /\ UNCHANGED <<pdf_path, output_path, is_converting, spawned, worker, fs,
                   render_config, log>>

\* main.rs:299-308 and 334-339: "Converter agora" is clicked.
ConvertClicked ==
    /\ ui.pc = "widgets"
    /\ ~ui.is_converting /\ ~ui.is_success
    /\ IsSome(pdf_path)
    /\ spawned < MaxJobs
    /\ output_path' = IF IsSome(output_path) THEN output_path
                      ELSE Some(set_extension(Unwrap(pdf_path), "key"))
    /\ ui' = [ui EXCEPT !.pc = "lock_339"]
    /\ UNCHANGED <<pdf_path, status, is_converting, spawned, worker, fs,
                   mutex, render_config, log>>

\* main.rs:339
Write339 ==
    /\ ui.pc = "write_339"
    /\ is_converting' = TRUE
    /\ mutex' = drop(mutex, "is_converting", UiThread)
    /\ ui' = [ui EXCEPT !.pc = "lock_341"]
    /\ UNCHANGED <<pdf_path, output_path, status, spawned, worker, fs,
                   render_config, log>>

\* main.rs:341-349: the status is reset, the guard is dropped at the end of
\* the block and the worker is spawned.
Write341 ==
    /\ ui.pc = "write_341"
    /\ status' = AppStatus(<<"Inicializando...">>, 0, FALSE, FALSE)
    /\ mutex' = drop(mutex, "status", UiThread)
    /\ spawned' = spawned + 1
    /\ worker' = [worker EXCEPT ![spawned + 1] =
                    [WorkerInit EXCEPT !.pc = "start",
                                       !.pdf_path = Unwrap(pdf_path),
                                       !.output_path = Unwrap(output_path)]]
    /\ ui' = UiIdle
    /\ UNCHANGED <<pdf_path, output_path, is_converting, fs, render_config, log>>

LockUiNext ==
    \/ UpdateCalled
    \/ UiLockReturns
    \/ Read116
    \/ Read146
    \/ Read147
    \/ FrameEnds
    \/ CardClicked
    \/ DialogCloses
    \/ Write325
    \/ NovoClicked
    \/ Write280
    \/ ConvertClicked
    \/ Write339
    \/ Write341

WorkerLock(j, at, name, held) ==
    /\ worker[j].pc = at
    /\ Granted(j, name)
    /\ worker' = [worker EXCEPT ![j].pc = held]
    /\ UNCHANGED <<pdf_path, output_path, status, is_converting, ui, spawned,
                   fs, render_config, log>>

\* main.rs:352, 354, 390, 409, 421: the lock() of worker j returns.
WorkerLockReturns(j) ==
    \/ WorkerLock(j, "lock_390", "status", "write_390")
    \/ WorkerLock(j, "lock_409", "status", "write_409")
    \/ WorkerLock(j, "lock_421", "status", "write_421")
    \/ WorkerLock(j, "lock_352", "is_converting", "write_352")
    \/ WorkerLock(j, "lock_354", "status", "write_354")

\* convert_pdf_to_keynote returns `result`; the closure calls lock() at
\* main.rs:352.
Returns(w, result) == [w EXCEPT !.result = Some(result), !.pc = "lock_352"]

\* main.rs:384-390: the workspace is made, or `?` returns.
WorkspaceMade(j) ==
    /\ worker[j].pc = "start"
    /\ \/ worker' = [worker EXCEPT ![j].pc = "lock_390"]
       \/ worker' = [worker EXCEPT ![j] = Returns(@, Err(IoError))]
    /\ UNCHANGED <<pdf_path, output_path, status, is_converting, ui, spawned,
                   fs, mutex, render_config, log>>

\* main.rs:390-393
Write390(j) ==
    /\ worker[j].pc = "write_390"
    /\ status' = [status EXCEPT !.message = <<"Renderizando páginas...">>,
                                !.progress = ProgressRendering]
    /\ mutex' = drop(mutex, "status", j)
    /\ worker' = [worker EXCEPT ![j].pc = "render"]
    /\ UNCHANGED <<pdf_path, output_path, is_converting, ui, spawned, fs,
                   render_config, log>>

\* The head of the loop of main.rs:406: lock() at 409 for the next page, or
\* lock() at 421 after the last one.
NextLock(i, total_pages) == IF i < total_pages THEN "lock_409" ELSE "lock_421"

\* main.rs:397-406: PDFium is loaded and the pages are rendered, or `?`
\* returns.
Rendered(j) ==
    /\ worker[j].pc = "render"
    /\ \/ \E n \in 0..MaxPages :
              worker' = [worker EXCEPT ![j].total_pages = n, ![j].i = 0,
                                       ![j].pc = NextLock(0, n)]
       \/ worker' = [worker EXCEPT ![j] = Returns(@, Err(PdfiumError))]
    /\ UNCHANGED <<pdf_path, output_path, status, is_converting, ui, spawned,
                   fs, mutex, render_config, log>>

\* main.rs:407-412
Write409(j) ==
    /\ worker[j].pc = "write_409"
    /\ status' = [status EXCEPT
                    !.message = <<"Processando página ", ToString(worker[j].i + 1),
                                  " de ", ToString(worker[j].total_pages), "...">>,
                    !.progress = SpoolProgress(worker[j].i, worker[j].total_pages)]
    /\ mutex' = drop(mutex, "status", j)
    /\ worker' = [worker EXCEPT ![j].pc = "save"]
    /\ UNCHANGED <<pdf_path, output_path, is_converting, ui, spawned, fs,
                   render_config, log>>

\* main.rs:415-417: the image is written, or `?` returns.
Saved(j) ==
    /\ worker[j].pc = "save"
    /\ \/ worker' = [worker EXCEPT
                        ![j].i = @ + 1,
                        ![j].pc = NextLock(worker[j].i + 1, worker[j].total_pages)]
       \/ worker' = [worker EXCEPT ![j] = Returns(@, Err(IoError))]
    /\ UNCHANGED <<pdf_path, output_path, status, is_converting, ui, spawned,
                   fs, mutex, render_config, log>>

\* main.rs:421-424
Write421(j) ==
    /\ worker[j].pc = "write_421"
    /\ status' = [status EXCEPT
                    !.message = <<"Criando apresentação no Keynote...">>,
                    !.progress = ProgressAssembling]
    /\ mutex' = drop(mutex, "status", j)
    /\ worker' = [worker EXCEPT ![j].pc = "build"]
    /\ UNCHANGED <<pdf_path, output_path, is_converting, ui, spawned, fs,
                   render_config, log>>

\* main.rs:428-438: the presentation is built and the workspace removed;
\* a document with no page cannot be built.
Built(j) ==
    /\ worker[j].pc = "build"
    /\ \/ /\ worker[j].total_pages > 0
          /\ worker' = [worker EXCEPT ![j] = Returns(@, Ok(<<>>))]
       \/ worker' = [worker EXCEPT ![j] = Returns(@, Err(SpawnError))]
    /\ UNCHANGED <<pdf_path, output_path, status, is_converting, ui, spawned,
                   fs, mutex, render_config, log>>

\* main.rs:352-354: the flag is cleared, the temporary guard is dropped and
\* lock() is called on status.
Write352(j) ==
    /\ worker[j].pc = "write_352"
    /\ is_converting' = FALSE
    /\ mutex' = drop(mutex, "is_converting", j)
    /\ worker' = [worker EXCEPT ![j].pc = "lock_354"]
    /\ UNCHANGED <<pdf_path, output_path, status, ui, spawned, fs,
                   render_config, log>>

\* main.rs:355-370: the terminal status is written, the guard is dropped at
\* the end of the closure and the thread ends.
Write354(j) ==
    /\ worker[j].pc = "write_354"
    /\ status' = TerminalStatus(status, Unwrap(worker[j].result))
    /\ mutex' = drop(mutex, "status", j)
    /\ worker' = [worker EXCEPT ![j] = [WorkerInit EXCEPT !.pc = "done"]]
    /\ UNCHANGED <<pdf_path, output_path, is_converting, ui, spawned, fs,
                   render_config, log>>

LockWorkerNext(j) ==
    \/ WorkerLockReturns(j)
    \/ WorkspaceMade(j)
    \/ Write390(j)
    \/ Rendered(j)
    \/ Write409(j)
    \/ Saved(j)
    \/ Write421(j)
    \/ Built(j)
    \/ Write352(j)
    \/ Write354(j)

LockNext == LockUiNext \/ \E j \in Jobs : LockWorkerNext(j)

\* The steps of the UI thread that drop a guard.
UiGuardDropped ==
    Read116 \/ Read146 \/ Read147 \/ Write280 \/ Write325 \/ Write339 \/ Write341

\* The scheduling the claims about locks rely on.  A worker thread runs
\* when it can, and so does the UI thread inside a frame from a lock() to
\* the drop of its guard: no fairness is asked of the user's clicks, of the
\* start of a frame or of the dialog.  A lock() that waits is served if the
\* mutex is free again and again (strong fairness): the mutex wakes a
\* waiter whenever a guard is dropped.
LockFairness ==
    /\ \A j \in Jobs : SF_vars(LockWorkerNext(j))
    /\ SF_vars(UiLockReturns)
    /\ WF_vars(UiGuardDropped)

LockSpec == Init /\ [][LockNext]_vars /\ LockFairness

----------------------------------------------------------------------------
\* Vocabulary of the properties

\* convert_pdf_to_keynote is running or has just returned: log[j] holds its steps.
InFunction(j) == worker[j].pc \notin {"unborn", "terminal_status", "done"}

\* convert_pdf_to_keynote has returned and the closure has not gone on yet.
Returned(j) == worker[j].pc = "clear_converting"

\* The result of convert_pdf_to_keynote, once it has returned.
Result(j) == Unwrap(worker[j].result)
HasResult(j) == worker[j].pc \in {"clear_converting", "terminal_status"}

\* The entries of kind `kind` in the log of job j.
Indices(j, kind) == {k \in 1..Len(log[j]) : log[j][k][1] = kind}
Has(j, kind) == Indices(j, kind) # {}

\* The step in which worker j writes its terminal status.
TerminalWrite(j) == worker[j].pc = "terminal_status" /\ worker'[j].pc = "done"

\* From the spawn (with the status reset of start_conversion) to the terminal write.
JobAlive(j) == worker[j].pc \notin {"unborn", "done"}

\* sub occurs in seq as a contiguous part.
Contains(seq, sub) ==
    \E k \in 0..(Len(seq) - Len(sub)) : SubSeq(seq, k + 1, k + Len(sub)) = sub

SavedBy(j) == {f \in fs.saved : f.by = j}

PermissionsHint == <<"Erro no Keynote (Verifique permissões de acesso): ">>

----------------------------------------------------------------------------
\* C1: every job that created its workspace attempts to remove it before it
\* ends, whatever the outcome: when convert_pdf_to_keynote has returned, with
\* Ok or with the error of any step, and the workspace was created, the
\* removal of the workspace has been attempted.
C1_RemovalAlwaysAttempted ==
    \A j \in Jobs :
        (Returned(j) /\ Has(j, "create_dir")) => Has(j, "remove_dir")

\* C2: while a job is alive the progress held by status never decreases; the
\* terminal write of a job that succeeded leaves progress at exactly 1.0, the
\* terminal write of a job that failed leaves it below 1.0 with is_error set.
C2_ProgressNonDecreasing ==
    [][ /\ \A j \in Jobs : JobAlive(j) => status'.progress >= status.progress
        /\ \A j \in Jobs :
              TerminalWrite(j) =>
                  IF Result(j).ok
                  THEN status'.progress = ProgressDone
                  ELSE status'.progress < ProgressDone /\ status'.is_error
      ]_vars

\* C3: the terminal write is the last thing a worker does to the shared
\* state: it is the last entry of the worker's log, it comes after the entry
\* of the clearing of is_converting, the thread has ended with it, a thread
\* that has ended has written it, and a thread that has ended takes no
\* further step.
C3_TerminalWriteLast ==
    /\ [](\A j \in Jobs :
            /\ \A k \in Indices(j, "terminal") :
                  /\ k = Len(log[j])
                  /\ worker[j].pc = "done"
                  /\ \E m \in Indices(j, "clear_converting") : m < k
            /\ \A k \in Indices(j, "status") :
                  /\ ~Has(j, "terminal")
                  /\ \A m \in Indices(j, "clear_converting") : k < m
            /\ worker[j].pc = "done" => Has(j, "terminal"))
    /\ [][\A j \in Jobs :
            worker[j].pc = "done" =>
                worker'[j] = worker[j] /\ log'[j] = log[j]]_vars

C3_Witness ==
    \E j \in Jobs :
        /\ worker[j].pc = "done"
        /\ log[j] = << <<"convert_pdf_to_keynote", 0>>, <<"clear_converting", 0>>,
                       <<"terminal", 0>> >>

\* The path of the image of page ordinal k (below 10) of job j.
ExpectedSlidePath(j, k) ==
    <<"/", "tmp", "/", "pdf2key_", ToString(j), "/",
      "slide_", "0", "0", "0", ToString(k), ".", "png">>

\* The pages written into the workspace by job j, in the order of the writes.
SavedPages(j) ==
    LET at == Indices(j, "save")
        Nth[n \in 1..Cardinality(at)] ==
            CHOOSE k \in at : Cardinality({m \in at : m < k}) = n - 1
    IN  [n \in 1..Cardinality(at) |-> log[j][Nth[n]][2]]

\* The page count of the document that job j rendered.
RenderedPageCounts(j) == {log[j][k][2] : k \in Indices(j, "render")}

\* C4: when convert_pdf_to_keynote returns Ok for a document of N pages,
\* the pages written were 0, 1, .., N-1 in this order, once each, and the
\* list held by the worker and the list in the script handed to osascript
\* are the N paths slide_0000.png, slide_0001.png, .. in this order.
C4_SlidesInPageOrder ==
    \A j \in Jobs :
        (Returned(j) /\ Result(j).ok) =>
            \A N \in RenderedPageCounts(j) :
                LET paths == [k \in 1..N |-> ExpectedSlidePath(j, k - 1)]
                IN  /\ SavedPages(j) = [k \in 1..N |-> k - 1]
                    /\ worker[j].image_paths = paths
                    /\ IsSome(worker[j].script)
                    /\ ParseScript(Unwrap(worker[j].script)).imageList = paths

C4_Witness ==
    \E j \in Jobs :
        /\ Returned(j) /\ Result(j).ok
        /\ Len(worker[j].image_paths) >= 2
        /\ RenderedPageCounts(j) = {Len(worker[j].image_paths)}

\* The document that job j rendered had no pages.
ZeroPages(j) == 0 \in RenderedPageCounts(j)

NoSlideError == Err(<< <<"Nenhum slide foi adicionado">> >>)

\* C5: for a document with zero pages, and for an empty list of slides,
\* build fails with its error and osascript is not called; the terminal
\* write of that job sets is_error and clears is_success.
C5_EmptyDocumentFails ==
    /\ [](\A j \in Jobs :
            /\ ZeroPages(j) =>
                  /\ worker[j].image_paths = <<>>
                  /\ ~Has(j, "osascript")
                  /\ worker[j].pc # "remove_dir"
                  /\ Returned(j) => Result(j) = NoSlideError
            /\ (worker[j].pc = "build" /\ worker[j].image_paths = <<>>) =>
                  \A env \in Environments(0) :
                      LET built == build(AddSlides(<<>>, worker[j].image_paths),
                                         worker[j].output_path, env)
                      IN  ~built.result.ok /\ built.script = None
            /\ Has(j, "build_failed") => ~Has(j, "osascript"))
    /\ [][\A j \in Jobs :
            (TerminalWrite(j) /\ Result(j) = NoSlideError) =>
                status'.is_error /\ ~status'.is_success]_vars

C5_Witness ==
    \E j \in Jobs :
        /\ worker[j].pc = "terminal_status"
        /\ Result(j) = NoSlideError

\* C6: each string literal of the script handed to osascript is well formed
\* and reads back as the path it was written from: the script parses, its
\* outputPath is the job's destination path and its imageList is the list
\* of image paths.
C6_LiteralsRoundTrip ==
    \A j \in Jobs :
        IsSome(worker[j].script) =>
            LET parsed == ParseScript(Unwrap(worker[j].script))
            IN  /\ parsed.ok
                /\ parsed.outputPath = worker[j].output_path
                /\ parsed.imageList = worker[j].image_paths

\* C7: the terminal write of a job whose osascript exited non-zero with
\* standard-error text E leaves is_error set, is_success clear, progress
\* below 1.0 and a message that contains the permissions hint and E.
C7_NonZeroExitSurfaced ==
    [][\A j \in Jobs :
          (/\ TerminalWrite(j)
           /\ IsSome(worker[j].output)
           /\ ~Unwrap(worker[j].output).success) =>
              LET E == to_string_lossy(Unwrap(worker[j].output).stderr)
              IN  /\ status'.is_error
                  /\ ~status'.is_success
                  /\ status'.progress < ProgressDone
                  /\ Contains(status'.message, E)
                  /\ Contains(status'.message, PermissionsHint)
      ]_vars

\* C8: a job whose convert_pdf_to_keynote returned an error has saved no
\* file; a file saved by a job was saved by the save step of its script,
\* that step came after one slide step for each image of the list, and it
\* was the last step of the script.
C8_NoOutputOnFailure ==
    \A j \in Jobs :
        /\ (HasResult(j) /\ ~Result(j).ok) => SavedBy(j) = {}
        /\ (InFunction(j) /\ SavedBy(j) # {}) => Has(j, "keynote_save")
        /\ \A k \in Indices(j, "keynote_save") :
              /\ \A m \in Indices(j, "osascript") :
                    Cardinality({n \in Indices(j, "keynote_slide") : n < k})
                        = log[j][m][2]
              /\ \A n \in Indices(j, "keynote_slide") \cup Indices(j, "keynote_make") :
                    n < k

C8_Witness ==
    \E j \in Jobs :
        /\ Returned(j) /\ ~Result(j).ok
        /\ Has(j, "keynote_slide")
        /\ SavedBy(j) = {}

\* The phase a worker is in, by its position: Idle 0, Rendering 1,
\* Spooling 2, Assembling 3, Succeeded or Failed 4.
PhaseRank(pc) ==
    CASE pc \in {"unborn", "start", "status_rendering"} -> 0
      [] pc \in {"load_pdfium", "render_pages"} -> 1
      [] pc \in {"spool_status", "spool_save"} -> 2
      [] pc \in {"status_assembling", "build", "remove_dir"} -> 3
      [] pc \in {"clear_converting", "terminal_status", "done"} -> 4

\* C9: the phase of a job never goes back; the document is rendered at most
\* once, each page is written at most once, osascript is called at most
\* once, and no phase status is written twice.
C9_PhasesOnlyForward ==
    /\ [](\A j \in Jobs :
            /\ Cardinality(Indices(j, "render") \cup Indices(j, "render_failed")) <= 1
            /\ Cardinality(Indices(j, "osascript")) <= 1
            /\ \A k, m \in Indices(j, "save") \cup Indices(j, "save_failed") :
                  log[j][k][2] = log[j][m][2] => k = m
            /\ \A k, m \in Indices(j, "status") :
                  k < m => log[j][k][2] < log[j][m][2])
    /\ [][\A j \in Jobs :
            PhaseRank(worker'[j].pc) >= PhaseRank(worker[j].pc)]_vars

C9_Witness ==
    \E j \in Jobs :
        /\ Returned(j) /\ ~Result(j).ok
        /\ Has(j, "osascript")
        /\ Cardinality(Indices(j, "save")) >= 2

\* C10: after a failure of the clock, of the creation of the workspace, of
\* the loading of PDFium or of the rendering, no image is written and
\* osascript is not called, and a failed rendering leaves the worker without
\* images; after the write of page i fails no further page is written, the
\* pages written are those before i, and osascript is not called.
C10_FirstFailureAborts ==
    \A j \in Jobs :
        /\ (Has(j, "clock_failed") \/ Has(j, "create_dir_failed")
              \/ Has(j, "load_failed") \/ Has(j, "render_failed")) =>
              /\ ~Has(j, "save") /\ ~Has(j, "save_failed")
              /\ ~Has(j, "osascript") /\ ~Has(j, "build_failed")
              /\ Returned(j)
        /\ Has(j, "render_failed") =>
              worker[j].images = <<>> /\ worker[j].image_paths = <<>>
        /\ \A k \in Indices(j, "save_failed") :
              /\ \A m \in Indices(j, "save") \cup Indices(j, "save_failed") :
                    /\ m <= k
                    /\ m < k => log[j][m][2] < log[j][k][2]
              /\ ~Has(j, "osascript") /\ ~Has(j, "build_failed")
              /\ Returned(j)

C10_Witness ==
    \E j \in Jobs :
        /\ Returned(j)
        /\ 2 \in RenderedPageCounts(j)
        /\ \E k \in Indices(j, "save_failed") : log[j][k][2] = 0

----------------------------------------------------------------------------
\* C11: every job that was started eventually clears is_converting and
\* eventually writes its terminal status and ends; the terminal write leaves
\* exactly one of is_success and is_error set.
C11_EveryJobTerminates ==
    /\ \A j \in Jobs :
          (worker[j].pc = "start") ~> (worker[j].pc = "terminal_status")
    /\ \A j \in Jobs :
          (worker[j].pc = "start") ~> (worker[j].pc = "done")
    /\ [][\A j \in Jobs :
            TerminalWrite(j) => (status'.is_success # status'.is_error)]_vars

C11_Witness ==
    \E j \in Jobs :
        /\ worker[j].pc = "done"
        /\ status.is_error /\ ~status.is_success
        /\ \A k \in Jobs : worker[k].pc \in {"unborn", "done"}

\* C12: at most one worker is alive at any time: a worker is started only
\* after every earlier worker has written its terminal status, so the
\* terminal write of a job never happens while a later job is alive.
C12_OneWorkerAlive ==
    /\ [](Cardinality({j \in Jobs : JobAlive(j)}) <= 1)
    /\ [][\A j \in Jobs :
            TerminalWrite(j) => \A k \in Jobs \ {j} : ~JobAlive(k)]_vars

\* C13: in every state in which is_converting is true, status has neither
\* is_success nor is_error set.
C13_NoTerminalFlagWhileConverting ==
    is_converting => (~status.is_success /\ ~status.is_error)

\* The progress of the last status write of job j before entry k of its
\* log, or -1 when there is none.
LastStatusBefore(j, k) ==
    LET before == {m \in Indices(j, "status") : m < k}
    IN  IF before = {} THEN -1
        ELSE log[j][CHOOSE m \in before : \A n \in before : n <= m][2]

ProcessingMessage(i, total_pages) ==
    <<"Processando página ", ToString(i + 1), " de ", ToString(total_pages), "...">>

\* C14: the status of a phase is written before the work of the phase: the
\* last status write before PDFium is loaded and before the pages are
\* rendered is the rendering one, the last before the image of page i is
\* written is the one of page i, the last before build is the assembling
\* one; and while a job is at one of these steps, the message in status is
\* the message of that step's phase.
C14_MessageBeforeWork ==
    \A j \in Jobs :
        /\ \A k \in Indices(j, "load") \cup Indices(j, "load_failed")
                  \cup Indices(j, "render") \cup Indices(j, "render_failed") :
              LastStatusBefore(j, k) = ProgressRendering
        /\ \A k \in Indices(j, "save") \cup Indices(j, "save_failed") :
              \A N \in RenderedPageCounts(j) :
                  LastStatusBefore(j, k) = SpoolProgress(log[j][k][2], N)
        /\ \A k \in Indices(j, "osascript") \cup Indices(j, "build_failed") :
              LastStatusBefore(j, k) = ProgressAssembling
        /\ LET w == worker[j]
           IN  /\ w.pc \in {"load_pdfium", "render_pages"} =>
                     status.message = <<"Renderizando páginas...">>
               /\ w.pc = "spool_save" =>
                     status.message = ProcessingMessage(w.i, w.total_pages)
               /\ w.pc = "build" =>
                     status.message = <<"Criando apresentação no Keynote...">>

\* The message that the terminal write of job j will put into status.
Surfaced(j) == TerminalStatus(status, Result(j)).message

\* The descriptions of the errors of the operating system and of the
\* libraries, which name neither a phase nor a page.
BareErrors == {SystemTimeError, IoError, PdfiumError, SpawnError}

\* msg has a token that is the number of page ordinal p, counted from 0 or
\* from 1.
NamesPage(msg, p) ==
    \E t \in 1..Len(msg) : msg[t] \in {ToString(p), ToString(p + 1)}

\* The first page of doc whose rendering fails, counted from 1, or 0.
FirstFailingPage(doc) ==
    IF doc.opens /\ doc.fail_page \in 1..doc.page_count THEN doc.fail_page ELSE 0

\* C15: the error that ends a job is surfaced with a context that names the
\* phase, not as the bare error of the system or of a library; when the
\* rendering of page i fails the error of render_pages names the rendering
\* and page i; when the write of the image of page i fails the surfaced
\* message names page i.
C15_ErrorNamesPhaseAndPage ==
    /\ \A doc \in Documents :
          FirstFailingPage(doc) # 0 =>
              Display(render_pages(doc, DPI).error)
                  = <<"Falha ao renderizar página ", ToString(FirstFailingPage(doc))>>
    /\ \A j \in Jobs :
          (Returned(j) /\ ~Result(j).ok) =>
              /\ \A b \in BareErrors : ~Contains(Surfaced(j), b)
              /\ \A k \in Indices(j, "save_failed") :
                    NamesPage(Surfaced(j), log[j][k][2])

\* The textual descriptions of an error: its outermost message (`{}`), the
\* whole chain (`{:#}`) and its root cause.
Descriptions(chain) ==
    {Display(chain), JoinStrings(chain, <<": ">>), chain[Len(chain)]}

\* C16: the terminal write of a job that failed puts into status.message a
\* textual description of the job's error and nothing else; for a non-zero
\* exit of osascript that description is the permissions hint followed by
\* the text of standard error.
C16_MessageVerbatim ==
    [][\A j \in Jobs :
          (TerminalWrite(j) /\ ~Result(j).ok) =>
              /\ status'.message \in Descriptions(Result(j).error)
              /\ (IsSome(worker[j].output) /\ ~Unwrap(worker[j].output).success) =>
                    status'.message
                        = PermissionsHint \o Unwrap(worker[j].output).stderr
      ]_vars

\* C19: a removal of the workspace that fails leaves the result of the job
\* as it was: once the removal has been attempted convert_pdf_to_keynote
\* returns Ok whether or not the workspace is still there, and the terminal
\* write of a job that returned Ok with its workspace still there is the
\* success status with progress 1.0.
C19_CleanupFailureIgnored ==
    /\ [](\A j \in Jobs :
            Has(j, "remove_dir") => (Returned(j) /\ Result(j).ok))
    /\ [][\A j \in Jobs :
            (TerminalWrite(j) /\ fs.workspace[j] /\ Result(j).ok) =>
                status' = AppStatus(<<"Concluído!">>, ProgressDone, FALSE, TRUE)]_vars

C19_Witness ==
    \E j \in Jobs :
        /\ Returned(j)
        /\ Has(j, "remove_dir")
        /\ fs.workspace[j]

\* The image of file `file` as the script leaves it.
PlacedImage(file) ==
    [file |-> file, width |-> "width of theDoc", height |-> "height of theDoc",
     position |-> "0, 0"]

\* Keynote after running the script that job j handed to osascript.
ScriptRun(j) ==
    With({KeynoteRun(parsed.body, 1, parsed.imageList, KeynoteStart) :
            parsed \in {ParseScript(Unwrap(worker[j].script))}})

\* C17: the script that a job hands to osascript for its N >= 1 images runs
\* and leaves a document of exactly N slides, slide k holding exactly one
\* image, the k-th of the list, at position (0, 0) with the width and the
\* height of the document; Keynote makes the document, then one image per
\* slide, then saves once, and is never activated.
C17_ScriptBuildsNSlides ==
    \A j \in Jobs :
        IsSome(worker[j].script) =>
            \A ran \in {ScriptRun(j)} :
                LET N == Len(worker[j].image_paths)
                IN  /\ N >= 1
                    /\ ran.doc = [k \in 1..N |->
                                    <<PlacedImage(worker[j].image_paths[k])>>]
                    /\ ran.steps = <<"make">> \o [k \in 1..N |-> "slide"] \o <<"save">>
                    /\ ~ran.activated

\* The integer nearest to num / den, for num >= 0 and den > 0.
Round(num, den) == (2 * num + den) \div (2 * den)

\* C18: the width and the height that the PdfRenderConfig of a page asks
\* for are round(w * dpi / 72) and round(h * dpi / 72), the nearest
\* integers.
C18_TargetPixelsRounded ==
    render_config.config # None =>
        LET config == Unwrap(render_config.config)
            page == render_config.page
            dpi == render_config.dpi
        IN  /\ config.target_width = Round(page.width * dpi, PointsPerInch)
            /\ config.maximum_height = Round(page.height * dpi, PointsPerInch)

C21_DestinationFollowsSource ==
    [][\A j \in Jobs :
          (worker[j].pc = "unborn" /\ worker'[j].pc = "start") =>
              /\ worker'[j].pdf_path = Unwrap(pdf_path)
              /\ worker'[j].output_path = set_extension(Unwrap(pdf_path), "key")]_vars

\* C22: the status never has is_success and is_error both true.
C22_FlagsExclusive == ~(status.is_success /\ status.is_error)

\* The status says success, written by a later job, and an earlier job that
\* failed has yet to write its terminal status.
C22_Witness ==
    /\ status.is_success
    /\ \E j \in Jobs : worker[j].pc = "terminal_status" /\ ~Result(j).ok

\* The positions at which a thread has called lock() on a mutex and waits.
Requests ==
    [status |-> {"lock_147", "lock_280", "lock_325", "lock_341",
                 "lock_354", "lock_390", "lock_409", "lock_421"},
     is_converting |-> {"lock_116", "lock_146", "lock_339", "lock_352"}]

Position(t) == IF t = UiThread THEN ui.pc ELSE worker[t].pc

Threads == {UiThread} \cup Jobs

\* C23: no thread holds the guard of status and the guard of is_converting
\* at the same time, no thread waits for one mutex while it holds the
\* other, and every lock() of the UI thread and of a worker is granted in
\* the end.
C23_LocksNeverNested ==
    /\ [](\A t \in Threads :
            /\ ~(t \in mutex.status /\ t \in mutex.is_converting)
            /\ Position(t) \in Requests.status => t \notin mutex.is_converting
            /\ Position(t) \in Requests.is_converting => t \notin mutex.status)
    /\ \A t \in Threads :
          /\ (Position(t) \in Requests.status) ~> (t \in mutex.status)
          /\ (Position(t) \in Requests.is_converting) ~> (t \in mutex.is_converting)

\* The UI thread waits for status, which a worker holds for its terminal
\* write, after the worker and the UI thread each held is_converting.
C23_Witness ==
    /\ ui.pc = "lock_147"
    /\ \E j \in Jobs : worker[j].pc = "write_354" /\ j \in mutex.status
====
